---- MODULE Spec2Model ----
(***************************************************************************)
(* Model of the batched gauge collector of pgexport                        *)
(* (src/metrics/gauge.go, package metrics): a GaugeBatch owns a batch      *)
(* under construction (current) and the last committed batch (last).  The  *)
(* scan goroutine calls Begin, Set, Commit; the scrape path calls Describe *)
(* and Collect concurrently.  Go slices are modelled as slice headers      *)
(* (ptr, len, cap) over a heap of backing arrays, so that sharing of a     *)
(* backing array between current, last and a reader's snapshot is visible. *)
(***************************************************************************)
EXTENDS Integers, Sequences, FiniteSets, TLC

(***************************************************************************)
(* Bounds of the model.                                                    *)
(***************************************************************************)
\* Samples a batch may hold (Set is not offered on a longer batch).
MaxSamples == 2
\* Commit calls in one behaviour; the scan goroutine stops after the last.
MaxCommits == 2

\* Goroutines of the scrape path that call Describe and Collect.
Readers == {"r1", "r2"}
\* Owner of the mutex when the scan goroutine holds it (inside Commit).
Producer == "scan"
\* The mutex is free.
Free == "free"

(***************************************************************************)
(* Inputs.                                                                 *)
(***************************************************************************)
\* Label schemas a collector may be constructed with (NewGaugeBatch).
LabelSchemas == {<<"db">>, <<"db", "kind">>}
\* Arguments of Set on a collector with the given schema: two samples whose
\* label values are aligned with the schema and one whose label values are
\* longer (one name) or shorter (two names) than the schema.
SampleInputs(names) ==
    IF Len(names) = 1
    THEN { [labelValues |-> <<"a">>, value |-> 10],
           [labelValues |-> <<"b">>, value |-> 20],
           [labelValues |-> <<"a", "x">>, value |-> 10] }
    ELSE { [labelValues |-> <<"a", "x">>, value |-> 10],
           [labelValues |-> <<"b", "y">>, value |-> 20],
           [labelValues |-> <<"a">>, value |-> 10] }
\* Arguments of Begin: time.Time values as (seconds, nanoseconds) since the
\* epoch; the first is not a whole number of milliseconds.
TimeInputs ==
    { [sec |-> 1, nsec |-> 999999],
      [sec |-> 2, nsec |-> 0] }

(***************************************************************************)
(* The Unix time of a time.Time.                                           *)
(***************************************************************************)
\* Variant of UnixMilli: time.Time.Unix, whole seconds.
UnixSeconds(t) == t.sec

\* time.Time.UnixMilli: seconds * 1e3 + nanoseconds / 1e6.
UnixMilli(t) == t.sec * 1000 + (t.nsec \div 1000000)

(***************************************************************************)
(* Slices and the heap of backing arrays.                                  *)
(***************************************************************************)
\* Capacity Begin asks for: make([]sample, 0, 16).
BeginCap == 16
\* The nil slice.
NilSlice == [ptr |-> 0, len |-> 0, cap |-> 0]
\* The zero value of batch.
ZeroBatch == [ts |-> 0, samples |-> NilSlice]
\* Addresses of backing arrays: current, last, one snapshot per reader, and
\* one array being allocated.
Addrs == 1 .. (Cardinality(Readers) + 3)
\* An address that holds no array.
FreeArray == [cap |-> 0, elems |-> <<>>]

\* The address the allocator hands out next: the lowest free one.
Alloc(h) == CHOOSE a \in Addrs : h[a].cap = 0 /\ \A b \in Addrs : b < a => h[b].cap # 0

\* The elements a slice header denotes.
Elems(h, s) == IF s.ptr = 0 THEN <<>> ELSE SubSeq(h[s.ptr].elems, 1, s.len)

\* Store x at 1-based position i of a backing array (elems keeps the
\* written prefix of the array).
WriteAt(elems, i, x) ==
    IF i = Len(elems) + 1 THEN Append(elems, x) ELSE [elems EXCEPT ![i] = x]

\* Capacity of the array append allocates when the old one is full
\* (the runtime doubles small slices; a nil slice grows to the needed 1).
GrowCap(oldcap) == IF oldcap = 0 THEN 1 ELSE 2 * oldcap

\* Variant of AppendSlice: the element is stored but the result of append
\* is not kept, so the slice header stays as it was.
AppendSliceDropped(h, s, x) ==
    IF s.len < s.cap
    THEN << [h EXCEPT ![s.ptr].elems = WriteAt(@, s.len + 1, x)], s >>
    ELSE << h, s >>

\* append(s, x): <<new heap, new slice header>>.  In place when the
\* capacity allows, else into a newly allocated array.
AppendSlice(h, s, x) ==
    IF s.len < s.cap
    THEN << [h EXCEPT ![s.ptr].elems = WriteAt(@, s.len + 1, x)],
            [s EXCEPT !.len = s.len + 1] >>
    ELSE LET a == Alloc(h)
             c == GrowCap(s.cap)
         IN << [h EXCEPT ![a] = [cap |-> c, elems |-> Append(Elems(h, s), x)]],
               [ptr |-> a, len |-> s.len + 1, cap |-> c] >>

\* make([]sample, 0, n): <<new heap, new slice header>>.
MakeSlice(h, n) ==
    LET a == Alloc(h)
    IN << [h EXCEPT ![a] = [cap |-> n, elems |-> <<>>]],
          [ptr |-> a, len |-> 0, cap |-> n] >>

\* The garbage collector: an array no slice header points to is freed.
Collected(h, roots) == [a \in Addrs |-> IF a \in roots THEN h[a] ELSE FreeArray]

(***************************************************************************)
(* State.                                                                  *)
(***************************************************************************)
VARIABLES
    labelNames,  \* GaugeBatch.labelNames
    descriptor,  \* GaugeBatch.descriptor
    last,        \* GaugeBatch.last
    current,     \* GaugeBatch.current
    lock,        \* owner of GaugeBatch.lock, or Free
    heap,        \* backing arrays of the sample slices
    ppc,         \* scan goroutine: "idle", or "commit" inside Commit's critical section
    rpc,         \* per reader: "idle", "described", "locked", "emit", "done", "panic"
    snap,        \* per reader: Collect's local snap
    idx,         \* per reader: Collect's metric_idx (0-based)
    gauges,      \* per reader: Collect's local array gauges
    labels,      \* per reader: Collect's local array labels
    lp,          \* per reader: Collect's local array lp
    out,         \* per reader: the gaugeProxy values sent on ch by the current call
    descOut,     \* per reader: the descriptor sent on ch by the current call of Describe
    ncommit,     \* history: number of completed Commit calls
    gcur,        \* history: the calls made since the last Begin or Commit
    glast,       \* history: the calls that made up the batch committed last
    gsnap        \* history, per reader: glast when the reader copied last

vars == << labelNames, descriptor, last, current, lock, heap, ppc, rpc, snap, idx,
           gauges, labels, lp, out, descOut, ncommit, gcur, glast, gsnap >>

collectorVars == << labelNames, descriptor, last, current, lock, heap >>
readerVars == << rpc, snap, idx, gauges, labels, lp, out, descOut, gsnap >>
historyVars == << ncommit, gcur, glast >>

(***************************************************************************)
(* State of the scanner (package scanner) and of the scan loop of          *)
(* config.Start (package main).  They are modelled apart from the          *)
(* collector above: the scanner's samples are recorded as the calls it     *)
(* makes on its metric sinks.                                              *)
(***************************************************************************)
VARIABLES
    variant,     \* which scanner source runs: "text", "vec" or "batch"
    cfg,         \* scanner.Config handed to Scan
    timescale,   \* the databases that have the timescaledb extension
    spc,         \* Scan: "idle", "loop" (iterating dbNames), "commit" or "unwind"
                 \* (the deferred commit, on a return or a panic), "done", "panic"
    todo,        \* Scan: the databases of dbNames not yet visited
    written,     \* the samples set (or written) since Scan was entered
    rowsDone,    \* history: the table rows read since Scan was entered
    dbErrors,    \* Scan: the error (TRUE) or nil (FALSE) of each scanDatabase
    scanErr,     \* the error Scan returned
    begun,       \* "batch": the gauges are between begin() and commit()
    nscan,       \* number of Scan calls entered
    calls,       \* history: the calls on the gauges since Scan was entered
    conns,       \* history: Connect and Dispose calls since Scan was entered
    visited,     \* history: the databases scanDatabase was called for
    initErr,     \* Scan: the initial step (Connect, db) failed
    dq,          \* history: the latest doQuery call
    published,   \* "batch": per gauge, the batch in `last` and the Scan it is of
    scrape,      \* per gauge, the Scan whose batch the scrape collected
    sharedBuffer, \* src/main.go: the buffer the handler serves, nil at first
    flags,       \* package main: the configuration Validate is given
    server,      \* package main: "off", "exited" or "listening"
    req,         \* history: the latest request and the handler's response
    loop         \* the scan loop of config.Start

scanVars == << variant, cfg, timescale, spc, todo, written, rowsDone, dbErrors,
               scanErr, begun, nscan, calls, conns, visited, initErr, dq, published,
               sharedBuffer >>
serverVars == << flags, server, req >>
exporterVars == << scanVars, loop, scrape, serverVars >>

(***************************************************************************)
(* History variables record the calls made, not the collector's data:      *)
(* gcur.open says that Begin was called since the last Commit, gcur.time   *)
(* is the argument of the last Begin and gcur.sets the arguments of the    *)
(* Set calls since the last Begin or Commit; gcur.rebegun says that a      *)
(* Begin since the last Commit was called on an open batch that had        *)
(* samples set.  Commit files them in glast under the number n of that     *)
(* Commit, and a reader that copies `last` keeps glast in gsnap.  The      *)
(* properties compare what Collect emits, read through the heap, with      *)
(* these records.                                                          *)
(***************************************************************************)
\* No descriptor was sent.
NoDesc == [name |-> "", help |-> "", labels |-> <<>>]
\* No Begin was called yet.
NoTime == [sec |-> 0, nsec |-> 0]
\* History of a collector on which nothing was called.
NoCalls == [open |-> FALSE, time |-> NoTime, sets |-> <<>>, rebegun |-> FALSE]
\* History of the batch `last` holds before the first Commit.
NoCommit == [n |-> 0, open |-> FALSE, time |-> NoTime, sets |-> <<>>, rebegun |-> FALSE]

\* A nil pointer into a sample array.
NilPtr == [arr |-> 0, i |-> 0, j |-> 0]
\* The zero value of dto.LabelPair.
ZeroLabelPair == [name |-> 0, value |-> NilPtr]

\* An unrecovered panic ends the process: nothing runs after it.
Running == \A r \in Readers : rpc[r] # "panic"

\* The arrays reachable from the collector and from the readers' locals.
Roots(cur, lst, snp) ==
    ({cur.samples.ptr, lst.samples.ptr} \cup {snp[r].samples.ptr : r \in Readers}) \ {0}

(***************************************************************************)
(* NewGaugeBatch: the collector after construction, with no reader.        *)
(***************************************************************************)
NewGaugeBatch ==
    /\ labelNames \in LabelSchemas
    /\ descriptor = [name |-> "pg_gauge", help |-> "help", labels |-> labelNames]
    /\ last = ZeroBatch
    /\ current = ZeroBatch
    /\ lock = Free
    /\ heap = [a \in Addrs |-> FreeArray]
    /\ ppc = "idle"
    /\ rpc = [r \in Readers |-> "idle"]
    /\ snap = [r \in Readers |-> ZeroBatch]
    /\ idx = [r \in Readers |-> 0]
    /\ gauges = [r \in Readers |-> <<>>]
    /\ labels = [r \in Readers |-> <<>>]
    /\ lp = [r \in Readers |-> <<>>]
    /\ out = [r \in Readers |-> <<>>]
    /\ descOut = [r \in Readers |-> NoDesc]
    /\ ncommit = 0
    /\ gcur = NoCalls
    /\ glast = NoCommit
    /\ gsnap = [r \in Readers |-> NoCommit]

(***************************************************************************)
(* The scan goroutine: Begin, Set, Commit, in any order.                   *)
(***************************************************************************)
\* Variant of BeginSamples: the new batch starts from the samples of the
\* last one instead of an empty slice.
BeginSamplesCarryOver(h, cur, lst) == << h, lst.samples >>

\* Variant of BeginSamples: Begin reuses the array of the committed batch
\* (c.current.samples = c.last.samples[:0]).
BeginSamplesReuseLast(h, cur, lst) == << h, [lst.samples EXCEPT !.len = 0] >>

\* Variant of BeginSamples: Begin keeps the samples of the batch under
\* construction.
BeginSamplesKeepOpen(h, cur, lst) == << h, cur.samples >>

\* The samples slice Begin installs: <<new heap, new slice header>>.  The
\* array of the batch Begin drops is garbage by then, unless `last` or a
\* reader shares it.
BeginSamples(h, cur, lst) ==
    MakeSlice(Collected(h, Roots([cur EXCEPT !.samples = NilSlice], lst, snap)), BeginCap)

\* Variant of BeginTs: Begin leaves the timestamp alone.
BeginTsKept(t) == current.ts

\* The timestamp Begin installs: ts.UnixMilli().
BeginTs(t) == UnixMilli(t)

\* Begin(ts).  The scan goroutine makes no call after its last Commit.
Begin(t) ==
    /\ Running /\ ppc = "idle"
    /\ ncommit < MaxCommits
    /\ LET made == BeginSamples(heap, current, last)
           cur == [ts |-> BeginTs(t), samples |-> made[2]]
       IN /\ current' = cur
          /\ heap' = Collected(made[1], Roots(cur, last, snap))
    /\ gcur' = [open |-> TRUE, time |-> t, sets |-> <<>>,
                rebegun |-> gcur.open /\ (gcur.rebegun \/ gcur.sets # <<>>)]
    /\ UNCHANGED << labelNames, descriptor, last, lock, ppc, ncommit, glast >>
    /\ UNCHANGED readerVars
    /\ UNCHANGED exporterVars

\* Set(labelValues, value): c.current.samples = append(c.current.samples,
\* sample{...}), whether or not Begin was called.
Set(s) ==
    /\ Running /\ ppc = "idle"
    /\ ncommit < MaxCommits
    /\ current.samples.len < MaxSamples
    /\ LET app == AppendSlice(heap, current.samples, s)
           cur == [current EXCEPT !.samples = app[2]]
       IN /\ current' = cur
          /\ heap' = Collected(app[1], Roots(cur, last, snap))
    /\ gcur' = [gcur EXCEPT !.sets = Append(@, s)]
    /\ UNCHANGED << labelNames, descriptor, last, lock, ppc, ncommit, glast >>
    /\ UNCHANGED readerVars
    /\ UNCHANGED exporterVars

\* Commit: c.lock.Lock().
CommitLock ==
    /\ Running /\ ppc = "idle"
    /\ ncommit < MaxCommits
    /\ lock = Free
    /\ lock' = Producer
    /\ ppc' = "commit"
    /\ UNCHANGED << labelNames, descriptor, last, current, heap >>
    /\ UNCHANGED readerVars
    /\ UNCHANGED historyVars
    /\ UNCHANGED exporterVars

\* Variant of CommitReset: the slice is emptied but keeps its array.
CommitResetTruncate(s) == [s EXCEPT !.len = 0]

\* The value Commit leaves in c.current.samples.
CommitReset(s) == NilSlice

\* Commit: c.last = c.current; c.current.samples = nil; c.lock.Unlock().
CommitSwap ==
    /\ Running /\ ppc = "commit"
    /\ LET lst == current
           cur == [current EXCEPT !.samples = CommitReset(@)]
       IN /\ last' = lst
          /\ current' = cur
          /\ heap' = Collected(heap, Roots(cur, lst, snap))
    /\ lock' = Free
    /\ ppc' = "idle"
    /\ ncommit' = ncommit + 1
    /\ glast' = [n |-> ncommit + 1, open |-> gcur.open, time |-> gcur.time,
                 sets |-> gcur.sets, rebegun |-> gcur.rebegun]
    /\ gcur' = [gcur EXCEPT !.open = FALSE, !.sets = <<>>, !.rebegun = FALSE]
    /\ UNCHANGED << labelNames, descriptor >>
    /\ UNCHANGED readerVars
    /\ UNCHANGED exporterVars

(***************************************************************************)
(* The scrape path: Describe and Collect.                                  *)
(***************************************************************************)
\* A call of the scrape path starts with fresh locals and a fresh channel;
\* what the previous call of the same goroutine left behind is dropped.
FreshCall(r) ==
    /\ LET snp == [snap EXCEPT ![r] = ZeroBatch]
       IN /\ snap' = snp
          /\ heap' = Collected(heap, Roots(current, last, snp))
    /\ idx' = [idx EXCEPT ![r] = 0]
    /\ gauges' = [gauges EXCEPT ![r] = <<>>]
    /\ labels' = [labels EXCEPT ![r] = <<>>]
    /\ lp' = [lp EXCEPT ![r] = <<>>]
    /\ out' = [out EXCEPT ![r] = <<>>]
    /\ gsnap' = [gsnap EXCEPT ![r] = NoCommit]

\* Variant of DescribeSends: nothing is described until a batch with
\* samples was committed.
DescribeSendsWhenReady == IF last.samples.ptr = 0 THEN NoDesc ELSE descriptor

\* What Describe sends on ch.
DescribeSends == descriptor

\* Describe: ch <- c.descriptor.
Describe(r) ==
    /\ Running /\ rpc[r] \in {"idle", "done", "described"}
    /\ FreshCall(r)
    /\ descOut' = [descOut EXCEPT ![r] = DescribeSends]
    /\ rpc' = [rpc EXCEPT ![r] = "described"]
    /\ UNCHANGED << labelNames, descriptor, last, current, lock, ppc >>
    /\ UNCHANGED historyVars
    /\ UNCHANGED exporterVars

\* Collect: c.lock.Lock().
CollectLock(r) ==
    /\ Running /\ rpc[r] \in {"idle", "done", "described"}
    /\ lock = Free
    /\ lock' = r
    /\ rpc' = [rpc EXCEPT ![r] = "locked"]
    /\ FreshCall(r)
    /\ descOut' = [descOut EXCEPT ![r] = NoDesc]
    /\ UNCHANGED << labelNames, descriptor, last, current, ppc >>
    /\ UNCHANGED historyVars
    /\ UNCHANGED exporterVars

\* Variant of CollectSnap: the batch under construction is copied.
CollectSnapCurrent == current

\* The batch Collect copies under the lock: snap := c.last.
CollectSnap == last

\* Variant of LockAfterSnapshot: the mutex is released only when Collect
\* returns (defer c.lock.Unlock()).
LockKeptWhileEmitting(r) == r

\* The owner of the mutex once Collect has copied the batch: c.lock.Unlock().
LockAfterSnapshot(r) == Free

\* Variant of LastAfterSnapshot: Collect takes the batch out of the
\* collector (c.last = batch{} after the copy).
LastTakenBySnapshot == ZeroBatch

\* c.last once Collect has copied it: the copy is by value and Collect
\* assigns to no field of the collector.
LastAfterSnapshot == last

\* Variant of SnapHasSamples: the test is inverted.
SnapHasSamplesInverted(s) == s.samples.ptr = 0

\* Collect's test of the copied batch: snap.samples != nil.
SnapHasSamples(s) == s.samples.ptr # 0

\* Collect: snap := c.last; c.lock.Unlock(); and, when snap.samples is not
\* nil, the three make calls.  With no sample to iterate Collect returns.
CollectSnapshot(r) ==
    /\ Running /\ rpc[r] = "locked"
    /\ LET s == CollectSnap
           n == s.samples.len
           scale == Len(labelNames)
       IN /\ snap' = [snap EXCEPT ![r] = s]
          /\ IF SnapHasSamples(s)
             THEN /\ gauges' = [gauges EXCEPT ![r] = [i \in 1 .. n |-> NilPtr]]
                  /\ labels' = [labels EXCEPT ![r] = [k \in 1 .. scale * n |-> ZeroLabelPair]]
                  /\ lp' = [lp EXCEPT ![r] = [k \in 1 .. scale * n |-> 0]]
             ELSE UNCHANGED << gauges, labels, lp >>
          /\ rpc' = [rpc EXCEPT ![r] = IF SnapHasSamples(s) /\ n > 0 THEN "emit" ELSE "done"]
    /\ last' = LastAfterSnapshot
    /\ lock' = LockAfterSnapshot(r)
    /\ gsnap' = [gsnap EXCEPT ![r] = glast]
    /\ UNCHANGED << labelNames, descriptor, current, heap, ppc, idx, out, descOut >>
    /\ UNCHANGED historyVars
    /\ UNCHANGED exporterVars

\* Variant of LabelSlot: the metric index is not scaled.
LabelSlotUnscaled(metric_idx, label_idx, scale) == metric_idx + label_idx

\* Position (0-based) in labels and lp of label label_idx of metric metric_idx.
LabelSlot(metric_idx, label_idx, scale) == metric_idx * scale + label_idx

\* The label pairs Collect has filled in for metric metric_idx, after the
\* inner loop ran over label indexes 0 .. upto-1.
FilledLabels(lbl, arr, metric_idx, scale, upto) ==
    [k \in DOMAIN lbl |->
        IF \E label_idx \in 0 .. upto - 1 : k = LabelSlot(metric_idx, label_idx, scale) + 1
        THEN LET label_idx == CHOOSE l \in 0 .. upto - 1 :
                                  k = LabelSlot(metric_idx, l, scale) + 1
             IN [name |-> label_idx + 1,
                 value |-> [arr |-> arr, i |-> metric_idx + 1, j |-> label_idx + 1]]
        ELSE lbl[k]]

\* The pointers Collect has stored in lp for metric metric_idx.
FilledLp(l, metric_idx, scale, upto) ==
    [k \in DOMAIN l |->
        IF \E label_idx \in 0 .. upto - 1 : k = LabelSlot(metric_idx, label_idx, scale) + 1
        THEN k ELSE l[k]]

\* One iteration of Collect's loop over snap.samples: fill gauges, labels
\* and lp for metric_idx and send the gaugeProxy on ch.  Reading
\* labelValues[label_idx] past the end of labelValues panics.  After the
\* last sample Collect returns.
CollectEmit(r) ==
    /\ Running /\ rpc[r] = "emit"
    /\ LET metric_idx == idx[r]
           scale == Len(labelNames)
           arr == snap[r].samples.ptr
           smp == heap[arr].elems[metric_idx + 1]
           have == Len(smp.labelValues)
       IN IF have < scale
          THEN /\ rpc' = [rpc EXCEPT ![r] = "panic"]
               /\ gauges' = [gauges EXCEPT ![r][metric_idx + 1] =
                                 [arr |-> arr, i |-> metric_idx + 1, j |-> 0]]
               /\ labels' = [labels EXCEPT ![r] =
                                 FilledLabels(@, arr, metric_idx, scale, have)]
               /\ lp' = [lp EXCEPT ![r] = FilledLp(@, metric_idx, scale, have)]
               /\ UNCHANGED << idx, out >>
          ELSE /\ gauges' = [gauges EXCEPT ![r][metric_idx + 1] =
                                 [arr |-> arr, i |-> metric_idx + 1, j |-> 0]]
               /\ labels' = [labels EXCEPT ![r] =
                                 FilledLabels(@, arr, metric_idx, scale, scale)]
               /\ lp' = [lp EXCEPT ![r] = FilledLp(@, metric_idx, scale, scale)]
               /\ out' = [out EXCEPT ![r] =
                              Append(@, [ts |-> r,
                                         lo |-> metric_idx * scale,
                                         hi |-> (metric_idx + 1) * scale,
                                         gauge |-> metric_idx + 1])]
               /\ idx' = [idx EXCEPT ![r] = metric_idx + 1]
               /\ rpc' = [rpc EXCEPT ![r] =
                              IF metric_idx + 1 < snap[r].samples.len THEN "emit" ELSE "done"]
    /\ UNCHANGED << labelNames, descriptor, last, current, lock, heap, ppc, snap,
                    descOut, gsnap >>
    /\ UNCHANGED historyVars
    /\ UNCHANGED exporterVars

(***************************************************************************)
(* What the consumer of ch reads through a gaugeProxy (Write, then the     *)
(* pointers of dto.Metric).                                                *)
(***************************************************************************)
\* A label value no pointer leads to.
Missing == "<nil>"

\* The sample a pointer into a backing array leads to.
SampleAt(p) ==
    IF p.arr \in Addrs /\ p.i \in DOMAIN heap[p.arr].elems
    THEN heap[p.arr].elems[p.i]
    ELSE [labelValues |-> <<>>, value |-> 0]

\* *LabelPair.Name and *LabelPair.Value of the pair lp[k] points to.
LabelPairAt(r, k) ==
    IF k \in DOMAIN lp[r] /\ lp[r][k] \in DOMAIN labels[r]
    THEN LET cell == labels[r][lp[r][k]]
             lv == SampleAt(cell.value).labelValues
         IN [name |-> IF cell.name \in DOMAIN labelNames
                      THEN labelNames[cell.name] ELSE Missing,
             value |-> IF cell.value.j \in DOMAIN lv THEN lv[cell.value.j] ELSE Missing]
    ELSE [name |-> Missing, value |-> Missing]

\* gaugeProxy.Write followed by reading the dto.Metric.
Written(m) ==
    [ts |-> snap[m.ts].ts,
     value |-> IF m.gauge \in DOMAIN gauges[m.ts]
               THEN SampleAt(gauges[m.ts][m.gauge]).value ELSE 0,
     label |-> [k \in 1 .. (m.hi - m.lo) |-> LabelPairAt(m.ts, m.lo + k)]]

\* The metrics reader r's consumer has received in the current call.
Emitted(r) == [i \in 1 .. Len(out[r]) |-> Written(out[r][i])]

(***************************************************************************)
(* The scanner (package scanner).  Three sources of it are kept: "text"    *)
(* writes each metric through a Writer, "vec" sets prometheus.GaugeVec     *)
(* gauges, "batch" sets metrics.GaugeBatch gauges between begin() and      *)
(* commit().  Strings that patterns are matched against are sequences of   *)
(* one-character strings.                                                  *)
(***************************************************************************)
\* Scan calls in one behaviour.
MaxScans == 2

Variants == {"text", "vec", "batch"}

\* Index of each gauge in Metrics.gauges.
dbSizeGauge == 0
tableTotalSizeGauge == 1
tableRelSizeGauge == 2
tableIdxSizeGauge == 3
tableIsHypertableGauge == 4
numMetrics == 5

Gauges == 0 .. (numMetrics - 1)
TableGauges == Gauges \ {dbSizeGauge}

\* Database names.
Postgres == << "p", "o", "s", "t", "g", "r", "e", "s" >>
Template0 == << "t", "e", "m", "p", "l", "a", "t", "e", "0" >>
Template1 == << "t", "e", "m", "p", "l", "a", "t", "e", "1" >>
App == << "a", "p", "p" >>
AppTest == << "a", "p", "p", "_", "t", "e", "s", "t" >>

\* The rows of pg_database on the server that is scanned.
Catalog ==
    << [datname |-> Template0, size |-> 7, datallowconn |-> FALSE, datistemplate |-> TRUE],
       [datname |-> Template1, size |-> 7, datallowconn |-> TRUE, datistemplate |-> TRUE],
       [datname |-> Postgres, size |-> 8, datallowconn |-> TRUE, datistemplate |-> FALSE],
       [datname |-> App, size |-> 500, datallowconn |-> TRUE, datistemplate |-> FALSE],
       [datname |-> AppTest, size |-> 60, datallowconn |-> TRUE, datistemplate |-> FALSE] >>

\* The tables of each database, one row per (schema, name) as the GROUP BY
\* of the table query leaves them; hyper says the table is a hypertable
\* where the timescaledb extension is installed.
Tables(database) ==
    IF database = App
    THEN << [hyper |-> TRUE, schema |-> "public", name |-> "events",
             total_size |-> 300, relation_size |-> 200],
            [hyper |-> FALSE, schema |-> "public", name |-> "users",
             total_size |-> 100, relation_size |-> 100],
            [hyper |-> FALSE, schema |-> "public", name |-> "tiny",
             total_size |-> 50, relation_size |-> 20] >>
    ELSE IF database = AppTest
    THEN << [hyper |-> FALSE, schema |-> "public", name |-> "users",
             total_size |-> 100, relation_size |-> 40] >>
    ELSE << [hyper |-> FALSE, schema |-> "pg_catalog", name |-> "pg_class",
             total_size |-> 100, relation_size |-> 60] >>

\* Values of --exceptions: none, a pattern, a malformed pattern before a
\* well-formed one.
UserExceptionInputs ==
    { << >>,
      << << "a", "p", "p", "_", "*" >> >>,
      << << "[" >>, << "a", "p", "?" >> >> }
\* Values of --threshold, in the unit of the sizes of Tables.
ThresholdInputs == {0, 100}

\* scanner.Defaults().
Defaults ==
    [InitialDB |-> Postgres,
     Exceptions |-> << Template0, Template1, Postgres >>,
     Threshold |-> 0]

\* config.Start: the scanner's configuration is Defaults() with InitialDB
\* and Threshold of the command line and the command line's exceptions
\* appended to the default ones.
ScannerConfig(exceptions, threshold) ==
    [InitialDB |-> Defaults.InitialDB,
     Exceptions |-> Defaults.Exceptions \o exceptions,
     Threshold |-> threshold]

\* filepath.Match for patterns made of literal characters, "*" and "?".
RECURSIVE Glob(_, _)
Glob(pattern, name) ==
    IF pattern = << >> THEN name = << >>
    ELSE IF Head(pattern) = "*"
    THEN \/ Glob(Tail(pattern), name)
         \/ name # << >> /\ Head(name) # "/" /\ Glob(pattern, Tail(name))
    ELSE IF name = << >> THEN FALSE
    ELSE IF Head(pattern) = "?"
    THEN Head(name) # "/" /\ Glob(Tail(pattern), Tail(name))
    ELSE Head(pattern) = Head(name) /\ Glob(Tail(pattern), Tail(name))

\* filepath.Match returns ErrBadPattern: a "[" that no "]" closes.
BadPattern(pattern) ==
    \E i \in DOMAIN pattern :
        pattern[i] = "[" /\ \A j \in DOMAIN pattern : j > i => pattern[j] # "]"

\* scanDatabase's loop over cfg.Exceptions: a pattern that does not compile
\* is logged and passed over, the first that matches skips the database.
Excepted(exceptions, database) ==
    \E k \in DOMAIN exceptions :
        ~BadPattern(exceptions[k]) /\ Glob(exceptions[k], database)

\* The rows the database query of db / dbMetrics returns.
DbQuery(v) ==
    IF v = "batch"
    THEN SelectSeq(Catalog, LAMBDA row : row.datallowconn /\ ~row.datistemplate)
    ELSE Catalog

\* The rows the table query returns in a database: is_hypertable is 0
\* everywhere when the database has no timescaledb extension.
TableQuery(database) ==
    LET rows == Tables(database)
    IN [k \in DOMAIN rows |->
           [isHypertable |-> IF database \in timescale /\ rows[k].hyper THEN 1 ELSE 0,
            schema |-> rows[k].schema,
            name |-> rows[k].name,
            tot_size |-> rows[k].total_size,
            rel_size |-> rows[k].relation_size]]

\* The label names each gauge is made with (New), and the keys of the label
\* map of each metric of the "text" scanner.
GaugeLabelNames(v, g) ==
    IF g = dbSizeGauge THEN << "database" >>
    ELSE IF g = tableIsHypertableGauge /\ v # "text"
    THEN << "database", "schema", "name" >>
    ELSE << "database", "schema", "name", "kind" >>

\* The metric family name of each gauge, without the prefix.
FamilyName(v, g) ==
    IF v = "text"
    THEN CASE g = dbSizeGauge -> "database_size_bytes"
           [] g = tableTotalSizeGauge -> "table_size_bytes"
           [] g = tableRelSizeGauge -> "table_relation_size_bytes"
           [] g = tableIdxSizeGauge -> "table_index_size_bytes"
           [] g = tableIsHypertableGauge -> "table_is_hypertable"
    ELSE CASE g = dbSizeGauge -> "database_size"
           [] g = tableTotalSizeGauge -> "table_size"
           [] g = tableRelSizeGauge -> "table_relation_size"
           [] g = tableIdxSizeGauge -> "table_index_size"
           [] g = tableIsHypertableGauge -> "table_is_hypertable"

\* A label a sample does not carry.
NoLabel == ""

\* One sample as set on gauge g: the label names of the gauge with the
\* values given for them.
Sample(v, g, database, schema, name, kind, value) ==
    LET names == GaugeLabelNames(v, g)
        has(n) == \E k \in DOMAIN names : names[k] = n
    IN [gauge |-> g,
        names |-> names,
        database |-> database,
        schema |-> IF has("schema") THEN schema ELSE NoLabel,
        name |-> IF has("name") THEN name ELSE NoLabel,
        kind |-> IF has("kind") THEN kind ELSE NoLabel,
        value |-> value]

\* The sample db / dbMetrics sets for one row of the database query.
DbSample(v, row) == Sample(v, dbSizeGauge, row.datname, NoLabel, NoLabel, NoLabel, row.size)

\* Variant of BelowThreshold: a table of exactly the threshold is dropped.
BelowOrAtThreshold(tot_size, threshold) == tot_size <= threshold

\* table / tableMetrics: a row is dropped if tot_size < threshold.
BelowThreshold(tot_size, threshold) == tot_size < threshold

\* table / tableMetrics: kind is "ht" if isHypertable > 0, else "rel".
KindOf(isHypertable) == IF isHypertable > 0 THEN "ht" ELSE "rel"

\* The samples table / tableMetrics sets for one row of the table query,
\* in the order of the source.
TableSamples(v, database, row, threshold) ==
    IF BelowThreshold(row.tot_size, threshold) THEN << >>
    ELSE LET kind == KindOf(row.isHypertable)
             smp(g, value) == Sample(v, g, database, row.schema, row.name, kind, value)
             isHyper == smp(tableIsHypertableGauge, row.isHypertable)
             total == smp(tableTotalSizeGauge, row.tot_size)
             rel == smp(tableRelSizeGauge, row.rel_size)
             index == smp(tableIdxSizeGauge, row.tot_size - row.rel_size)
         IN IF v = "vec" THEN << total, rel, index, isHyper >>
            ELSE << isHyper, total, rel, index >>

\* The concatenation of a sequence of sequences.
RECURSIVE Flatten(_)
Flatten(ss) == IF ss = << >> THEN << >> ELSE Head(ss) \o Flatten(Tail(ss))

(***************************************************************************)
(* int64 arithmetic.  An int64 is kept as its eight bytes, least           *)
(* significant first, in two's complement; products are taken byte by      *)
(* byte, so that a product that does not fit wraps as the machine's does.  *)
(***************************************************************************)
Int64Bytes == 8
ByteBase == 256

\* The int64 of a natural number below 2^31.
FromNat(n) ==
    [i \in 1 .. Int64Bytes |->
        CASE i = 1 -> n % ByteBase
          [] i = 2 -> (n \div ByteBase) % ByteBase
          [] i = 3 -> (n \div (ByteBase * ByteBase)) % ByteBase
          [] i = 4 -> (n \div (ByteBase * ByteBase * ByteBase)) % ByteBase
          [] OTHER -> 0]

\* Byte i of x, zero past its length.
ByteAt(x, i) == IF i \in DOMAIN x THEN x[i] ELSE 0

\* Sum over i in 1 .. k of a[i] * b[k + 1 - i]: column k of the long product.
RECURSIVE Column(_, _, _, _)
Column(a, b, k, i) ==
    IF i > k THEN 0 ELSE ByteAt(a, i) * ByteAt(b, k + 1 - i) + Column(a, b, k, i + 1)

\* Column k of the product with the carry of the lower columns.
RECURSIVE Carried(_, _, _)
Carried(a, b, k) ==
    Column(a, b, k, 1) + (IF k = 1 THEN 0 ELSE Carried(a, b, k - 1) \div ByteBase)

\* The low w bytes of the product of two non-negative numbers.
MulBytes(a, b, w) == [k \in 1 .. w |-> Carried(a, b, k) % ByteBase]

\* a * b in int64: the product modulo 2^64.
Mul64(a, b) == MulBytes(a, b, Int64Bytes)

\* The product of two non-negative int64 fits int64: the bytes above the
\* eighth are zero and the sign bit is clear.
MulFits(a, b) ==
    LET full == MulBytes(a, b, 2 * Int64Bytes)
    IN /\ \A k \in (Int64Bytes + 1) .. (2 * Int64Bytes) : full[k] = 0
       /\ full[Int64Bytes] < ByteBase \div 2

\* x > 0 and x < 0 in int64.
Negative64(x) == x[Int64Bytes] >= ByteBase \div 2
Positive64(x) == ~Negative64(x) /\ \E i \in DOMAIN x : x[i] # 0

\* time.Second and time.Minute, in nanoseconds.
Second == FromNat(1000000000)
Minute == Mul64(FromNat(60), Second)
\* n minutes as a time.Duration.
Minutes(n) == Mul64(FromNat(n), Minute)

(***************************************************************************)
(* The scan loop of config.Start: a goroutine that waits for its timer or  *)
(* for the context, runs Scan and resets the timer.  "text" is served by   *)
(* src/main.go; "vec" and "batch" by the main package that registers the   *)
(* gauges in a prometheus registry.                                        *)
(***************************************************************************)
\* Values of --interval that Validate accepts (at least 5 minutes); 30
\* minutes is the default.
IntervalInputs == { Minutes(5), Minutes(30), Minutes(60) }

\* The argument of timer.Reset after a scan.
ResetDelay(v, interval) ==
    IF v = "text" THEN Mul64(interval, Minute) ELSE interval

\* The loop before config.Start has run.
LoopOff == loop = [interval |-> Minutes(30), pc |-> "off", delay |-> FromNat(0),
                   fired |-> FALSE, cancelled |-> FALSE]

\* The loop as config.Start leaves it: time.NewTimer(0).
LoopInit ==
    loop \in { [interval |-> i, pc |-> "timer", delay |-> FromNat(0),
                fired |-> FALSE, cancelled |-> FALSE] :
                  i \in IntervalInputs }

\* Variant of LoopInScan: Scan runs in a goroutine of its own and the loop
\* resets the timer at once.
LoopInScanDetached ==
    [loop EXCEPT !.fired = FALSE, !.delay = ResetDelay(variant, loop.interval)]

\* The loop while it is inside the call of Scan: the value of timer.C was
\* received and the timer is not armed.
LoopInScan == [loop EXCEPT !.pc = "scan", !.fired = FALSE]

\* The loop when Scan has returned: timer.Reset.
LoopAfterScan ==
    [loop EXCEPT !.pc = "timer", !.fired = FALSE,
                 !.delay = ResetDelay(variant, loop.interval)]

\* The loop when a panic has left the scan goroutine: the process is gone.
LoopCrashed == [loop EXCEPT !.pc = "crashed", !.fired = FALSE]

(***************************************************************************)
(* doQuery.                                                                *)
(***************************************************************************)
\* How a query can go: "ok"; "query": conn.Query returns an error; "scan":
\* the scanner returns an error for a row; "iter": rows.Next returns false
\* and rows.Err() is not nil.
QueryOutcomes == {"ok", "query", "scan", "iter"}

\* A query of n rows of which `good` are handed to the scanner with
\* success goes this way.
QueryRun(n, good, outcome) ==
    /\ good \in 0 .. n
    /\ outcome = "ok" => good = n
    /\ outcome = "query" => good = 0
    /\ outcome = "scan" => good < n

\* The nil error.
NilError == "nil"

\* The variable err of doQuery when the loop over rows.Next() has ended
\* without a return: conn.Query returned nil and so did every scanner.Scan.
ErrAfterLoop == NilError

\* What doQuery does in the end: it returns the error of conn.Query, the
\* error of the first scanner.Scan that fails, or nil; when rows.Err() is
\* not nil it first evaluates err.Error() for the log, on the variable err
\* and not on rows.Err(), a nil dereference when err is nil.
DoQueryResult(outcome) ==
    CASE outcome = "query" -> "queryErr"
      [] outcome = "scan" -> "scanErr"
      [] outcome = "iter" -> IF ErrAfterLoop = NilError THEN "panic" ELSE "rowsErr"
      [] outcome = "ok" -> NilError

\* The record of one doQuery call.
DoQuery(n, good, outcome) ==
    [rows |-> n, passed |-> good, outcome |-> outcome, result |-> DoQueryResult(outcome)]

\* No doQuery call was made.
NoQuery == [rows |-> 0, passed |-> 0, outcome |-> "ok", result |-> NilError]

(***************************************************************************)
(* Scan.                                                                   *)
(***************************************************************************)
\* A call on a gauge and a call on the connection factory, as logged.
GaugeCall(op, g) == [op |-> op, gauge |-> g]
FactoryCall(op, database) == [op |-> op, database |-> database]

\* Metrics.begin: Begin on every gauge of m.gauges, in order.  Only the
\* "batch" scanner has gauges that are begun and committed.
BeginCalls(v) ==
    IF v = "batch" THEN [k \in 1 .. numMetrics |-> GaugeCall("Begin", k - 1)] ELSE << >>

\* The Set calls (or writes) that give these samples.
SetCalls(samples) == [k \in DOMAIN samples |-> GaugeCall("Set", samples[k].gauge)]

\* Variant of Deferred: commit() is called on the successful return only.
DeferredUnlessFailed(v, failed) ==
    IF v = "batch" /\ ~failed THEN [k \in 1 .. numMetrics |-> k - 1] ELSE << >>

\* The gauges the deferred m.commit() of Scan commits when Scan is left, by
\* a return or by a panic: all of m.gauges, in order.
Deferred(v, failed) ==
    IF v = "batch" THEN [k \in 1 .. numMetrics |-> k - 1] ELSE << >>

\* Variant of DisposeDeferred: Dispose is called when the work on the
\* connection succeeded only.
DisposeUnlessFailed(database, failed) ==
    IF failed THEN << >> ELSE << FactoryCall("Dispose", database) >>

\* The deferred factory.Dispose of the closure that connected.
DisposeDeferred(database, failed) == << FactoryCall("Dispose", database) >>

\* Connect, the work on the connection and the deferred Dispose.
Connection(database, failed) ==
    << FactoryCall("Connect", database) >> \o DisposeDeferred(database, failed)

\* Variant of CommittedSamples: a batch without samples does not replace
\* the one published before.
CommittedSamplesUnlessEmpty(g) ==
    IF \E k \in DOMAIN written : written[k].gauge = g
    THEN SelectSeq(written, LAMBDA s : s.gauge = g)
    ELSE published[g].samples

\* The samples Commit publishes for gauge g: those Set on it since the
\* Begin of this Scan.
CommittedSamples(g) == SelectSeq(written, LAMBDA s : s.gauge = g)

\* Nothing was committed on any gauge.  Of a published batch `cycle` is the
\* Scan that committed it and `replaced`, history, says that the batch it
\* took the place of had samples.
NoneCommitted == [g \in Gauges |-> [cycle |-> 0, samples |-> << >>, replaced |-> FALSE]]

\* A gauge the scrape has not collected.
NotSeen == [seen |-> FALSE, cycle |-> 0]

\* No gauge was collected by the scrape.
NoneSeen == [g \in Gauges |-> NotSeen]

\* The buffer no scan has filled: var sharedBuffer *bytes.Buffer.
NilBuffer == [nil |-> TRUE, id |-> 0, bytes |-> << >>]

\* src/main.go after Scan: sharedBuffer = buffer, under bufferLock; buffer
\* is the bytes.NewBuffer(nil) made for this Scan, here numbered by the
\* Scan, holding what the TextWriter wrote.
SharedAfterScan(n, samples) == [nil |-> FALSE, id |-> n, bytes |-> samples]

(***************************************************************************)
(* Package main: Validate, main and the HTTP handler of config.Start.      *)
(***************************************************************************)
\* a < b for the bytes of two numbers of the same sign, from byte i down.
RECURSIVE LessFrom(_, _, _)
LessFrom(a, b, i) ==
    IF i = 0 THEN FALSE
    ELSE IF a[i] # b[i] THEN a[i] < b[i]
    ELSE LessFrom(a, b, i - 1)

\* a < b in int64.
Less64(a, b) ==
    IF Negative64(a) # Negative64(b) THEN Negative64(a)
    ELSE LessFrom(a, b, Int64Bytes)

\* -1 in int64.
MinusOne64 == [i \in 1 .. Int64Bytes |-> ByteBase - 1]

\* Values of --timeout (a time.Duration): -1ns, 0 and the default 5s.
TimeoutInputs == { MinusOne64, FromNat(0), Mul64(FromNat(5), Second) }

\* Values of --port around the bound of Validate.
PortInputs == { 1024, 1025 }

\* Values of --interval around the bound of Validate.
FlagIntervalInputs == { Minutes(4), Minutes(5) }

\* Values of the environment variable PGPASSWORD; unset reads as "".
PasswordInputs == { "", "secret" }

\* The configurations main can hand to Validate.
FlagInputs ==
    [Timeout : TimeoutInputs, Port : PortInputs, Interval : FlagIntervalInputs,
     Password : PasswordInputs]

\* defaults(), with a password in the environment.
DefaultFlags ==
    [Timeout |-> Mul64(FromNat(5), Second), Port |-> 5432, Interval |-> Minutes(30),
     Password |-> "secret"]

\* config.Validate: the error it returns, NilError for nil.
Validate(c) ==
    IF Less64(c.Timeout, FromNat(0))
    THEN "timeout must be greater than 0"
    ELSE IF c.Port <= 1024
    THEN "port must be greater than 1024"
    ELSE IF Less64(c.Interval, Mul64(FromNat(5), Minute))
    THEN "period must be greater than 5 minutes"
    ELSE IF c.Password = ""
    THEN "PGPASSWORD environment must be set"
    ELSE NilError

\* The methods and paths of the requests.
MethodInputs == { "GET", "POST" }
PathInputs == { "/", "/healthz", "/process/metrics", "/metrics", "/favicon.ico" }

\* Variant of Route: the path is looked at before the method.
RoutePathFirst(v, method, path) ==
    IF path = "/" THEN "redirect"
    ELSE IF v = "text"
    THEN IF path # "/metrics" THEN "notFound"
         ELSE IF method # "GET" THEN "notAllowed" ELSE "buffer"
    ELSE IF path = "/healthz" THEN "healthz"
    ELSE IF method # "GET" THEN "notAllowed"
    ELSE IF path = "/process/metrics" THEN "procHandler"
    ELSE IF path = "/metrics" THEN "promHandler"
    ELSE "notFound"

\* The branch the handler of config.Start takes: src/main.go ("text") knows
\* "/" and "/metrics" only; the main with the registry also "/healthz" and
\* "/process/metrics".
Route(v, method, path) ==
    IF method # "GET" THEN "notAllowed"
    ELSE IF path = "/" THEN "redirect"
    ELSE IF v = "text"
    THEN IF path # "/metrics" THEN "notFound" ELSE "buffer"
    ELSE IF path = "/healthz" THEN "healthz"
    ELSE IF path = "/process/metrics" THEN "procHandler"
    ELSE IF path = "/metrics" THEN "promHandler"
    ELSE "notFound"

\* A nil pointer is dereferenced when Bytes is called on this buffer.
BytesFaults(buffer) == buffer.nil

\* What the branch writes: the status given to WriteHeader (200 for the
\* handlers of promhttp), the Location of a redirect, and for the buffer of
\* src/main.go the bytes of the buffer copied under bufferLock, written
\* after WriteHeader(200), unless buffer.Bytes() faults, which ends the
\* request with nothing written to the body.
Respond(route, buffer) ==
    LET plain(status) == [status |-> status, location |-> "", fault |-> FALSE,
                          served |-> 0, body |-> << >>]
    IN CASE route = "notAllowed" -> plain(405)
         [] route = "redirect" -> [plain(302) EXCEPT !.location = "/metrics"]
         [] route = "healthz" -> plain(204)
         [] route = "notFound" -> plain(404)
         [] route \in {"procHandler", "promHandler"} -> plain(200)
         [] route = "buffer" ->
                IF BytesFaults(buffer)
                THEN [plain(200) EXCEPT !.fault = TRUE]
                ELSE [plain(200) EXCEPT !.served = buffer.id, !.body = buffer.bytes]

\* No request was made.
NoRequest ==
    [method |-> "", path |-> "", route |-> "", scanning |-> 0, finished |-> 0,
     response |-> Respond("notFound", NilBuffer)]

\* The server before main has run, with the default configuration.
ServerOff ==
    /\ flags = DefaultFlags
    /\ server = "off"
    /\ req = NoRequest

\* The scanner before config.Start has run, in a fixed configuration.
ScanOff ==
    /\ variant = "batch"
    /\ cfg = Defaults
    /\ timescale = {}
    /\ spc = "idle"
    /\ todo = << >>
    /\ written = << >>
    /\ rowsDone = << >>
    /\ dbErrors = << >>
    /\ scanErr = FALSE
    /\ begun = FALSE
    /\ nscan = 0
    /\ calls = << >>
    /\ conns = << >>
    /\ visited = << >>
    /\ initErr = FALSE
    /\ dq = NoQuery
    /\ published = NoneCommitted
    /\ scrape = NoneSeen
    /\ sharedBuffer = NilBuffer

\* The scanner when config.Start has made its configuration.
ScanInit ==
    /\ variant \in Variants
    /\ cfg \in { ScannerConfig(e, t) : e \in UserExceptionInputs, t \in ThresholdInputs }
    /\ timescale \in { {}, {App} }
    /\ spc = "idle"
    /\ todo = << >>
    /\ written = << >>
    /\ rowsDone = << >>
    /\ dbErrors = << >>
    /\ scanErr = FALSE
    /\ begun = FALSE
    /\ nscan = 0
    /\ calls = << >>
    /\ conns = << >>
    /\ visited = << >>
    /\ initErr = FALSE
    /\ dq = NoQuery
    /\ published = NoneCommitted
    /\ scrape = NoneSeen
    /\ sharedBuffer = NilBuffer

\* The timer of the loop fires: a value is ready in timer.C.
TimerFire ==
    /\ loop.pc = "timer"
    /\ ~loop.fired
    /\ loop' = [loop EXCEPT !.fired = TRUE]
    /\ UNCHANGED scanVars
    /\ UNCHANGED << scrape, serverVars >>
    /\ UNCHANGED vars


\* Scan is left, by a return (with an error when `failed`) or by a panic:
\* the deferred commit() of the "batch" scanner is yet to run; without
\* deferred calls the loop logs the error, src/main.go shares the buffer
\* of this Scan, and the loop resets the timer; or the panic ends the
\* process.
Leave(failed, panicked) ==
    IF Deferred(variant, failed) # << >>
    THEN /\ spc' = IF panicked THEN "unwind" ELSE "commit"
         /\ begun' = (variant = "batch")
         /\ loop' = LoopInScan
         /\ sharedBuffer' = sharedBuffer
    ELSE /\ spc' = IF panicked THEN "panic" ELSE "done"
         /\ begun' = FALSE
         /\ loop' = IF panicked THEN LoopCrashed ELSE LoopAfterScan
         /\ sharedBuffer' = IF panicked \/ variant # "text"
                            THEN sharedBuffer
                            ELSE SharedAfterScan(nscan', written')

\* The loop's select takes <-timer.C and calls Scan.
\* Scan up to the loop over dbNames: begin() ("batch"), the connection to
\* the initial database, db / dbMetrics over the rows of the database
\* query, and the deferred Dispose.  connOk: Connect succeeds; good: the
\* rows the scanner took; outcome: how doQuery goes.
ScanEnter(connOk, good, outcome) ==
    /\ loop.pc = "timer"
    /\ loop.fired
    /\ nscan < MaxScans
    /\ nscan' = nscan + 1
    /\ rowsDone' = << >>
    /\ dbErrors' = << >>
    /\ visited' = << >>
    /\ LET rows == DbQuery(variant)
           q == DoQuery(Len(rows), good, outcome)
           samples == [k \in 1 .. good |-> DbSample(variant, rows[k])]
       IN IF ~connOk
          THEN /\ written' = << >>
               /\ calls' = BeginCalls(variant)
               /\ conns' = << >>
               /\ dq' = dq
               /\ todo' = << >>
               /\ scanErr' = TRUE
               /\ initErr' = TRUE
               /\ Leave(TRUE, FALSE)
          ELSE /\ QueryRun(Len(rows), good, outcome)
               /\ written' = samples
               /\ calls' = BeginCalls(variant) \o SetCalls(samples)
               /\ conns' = Connection(cfg.InitialDB, q.result # NilError)
               /\ dq' = q
               /\ IF q.result = NilError
                  THEN /\ todo' = [k \in 1 .. Len(rows) |-> rows[k].datname]
                       /\ scanErr' = FALSE
                       /\ initErr' = FALSE
                       /\ spc' = "loop"
                       /\ begun' = (variant = "batch")
                       /\ loop' = LoopInScan
                       /\ sharedBuffer' = sharedBuffer
                  ELSE /\ todo' = << >>
                       /\ scanErr' = (q.result # "panic")
                       /\ initErr' = TRUE
                       /\ Leave(TRUE, q.result = "panic")
    /\ UNCHANGED << variant, cfg, timescale, published >>
    /\ UNCHANGED << scrape, serverVars >>
    /\ UNCHANGED vars

\* scanDatabase for the next database of dbNames: skipped when a pattern of
\* cfg.Exceptions matches; else Connect, hasTimescale, table / tableMetrics
\* over the rows of the table query, and the deferred Dispose.  connOk:
\* Connect succeeds; tsq: how the doQuery of hasTimescale goes; good: the
\* rows the scanner of the table query took; outcome: how its doQuery goes.
ScanDatabase(connOk, tsq, good, outcome) ==
    /\ spc = "loop"
    /\ todo # << >>
    /\ LET database == Head(todo)
           rows == TableQuery(database)
           tsRows == IF database \in timescale THEN 1 ELSE 0
           tq == DoQuery(tsRows, IF tsq = "ok" THEN tsRows ELSE 0, tsq)
           q == IF tq.result = NilError THEN DoQuery(Len(rows), good, outcome) ELSE tq
           taken == IF tq.result = NilError THEN good ELSE 0
       IN /\ visited' = Append(visited, database)
          /\ todo' = Tail(todo)
          /\ IF Excepted(cfg.Exceptions, database)
             THEN /\ dbErrors' = Append(dbErrors, FALSE)
                  /\ UNCHANGED << written, rowsDone, calls, conns, dq >>
                  /\ UNCHANGED << spc, begun, loop, sharedBuffer >>
             ELSE IF ~connOk
             THEN /\ dbErrors' = Append(dbErrors, TRUE)
                  /\ UNCHANGED << written, rowsDone, calls, conns, dq >>
                  /\ UNCHANGED << spc, begun, loop, sharedBuffer >>
             ELSE /\ QueryRun(tsRows, tq.passed, tsq)
                  /\ tq.result = NilError => QueryRun(Len(rows), good, outcome)
                  /\ LET samples == Flatten([k \in 1 .. taken |->
                                      TableSamples(variant, database, rows[k], cfg.Threshold)])
                     IN /\ written' = written \o samples
                        /\ calls' = calls \o SetCalls(samples)
                  /\ rowsDone' = rowsDone \o
                         [k \in 1 .. taken |-> [database |-> database, row |-> rows[k]]]
                  /\ conns' = conns \o Connection(database, q.result # NilError)
                  /\ dq' = q
                  /\ IF q.result = "panic"
                     THEN /\ dbErrors' = dbErrors
                          /\ Leave(TRUE, TRUE)
                     ELSE /\ dbErrors' = Append(dbErrors, q.result # NilError)
                          /\ UNCHANGED << spc, begun, loop, sharedBuffer >>
    /\ UNCHANGED << variant, cfg, timescale, scanErr, initErr, nscan, published >>
    /\ UNCHANGED << scrape, serverVars >>
    /\ UNCHANGED vars

\* Scan after the loop: it returns errors.Join(dbErrors...), nil when no
\* scanDatabase failed.
ScanReturn ==
    /\ spc = "loop"
    /\ todo = << >>
    /\ scanErr' = (\E k \in DOMAIN dbErrors : dbErrors[k])
    /\ UNCHANGED << variant, cfg, timescale, todo, written, rowsDone, dbErrors, nscan,
                    calls, conns, visited, initErr, dq, published >>
    /\ Leave(scanErr', FALSE)
    /\ UNCHANGED << scrape, serverVars >>
    /\ UNCHANGED vars

\* The deferred m.commit(): Commit on the next gauge of m.gauges, each
\* under the lock of that gauge.  After the last one Scan has returned and
\* the loop logs the error and resets the timer, or the panic goes on and
\* ends the process.
CommitGauge ==
    /\ spc \in {"commit", "unwind"}
    /\ LET due == Deferred(variant, scanErr \/ spc = "unwind")
           k == Cardinality({i \in DOMAIN calls : calls[i].op = "Commit"}) + 1
           g == due[k]
       IN /\ k \in DOMAIN due
          /\ calls' = Append(calls, GaugeCall("Commit", g))
          /\ published' = [published EXCEPT
                              ![g] = [cycle |-> nscan, samples |-> CommittedSamples(g),
                                      replaced |-> published[g].samples # << >>]]
          /\ sharedBuffer' = sharedBuffer
          /\ IF k < Len(due)
             THEN UNCHANGED << spc, begun, loop >>
             ELSE /\ spc' = IF spc = "unwind" THEN "panic" ELSE "done"
                  /\ begun' = FALSE
                  /\ loop' = IF spc = "unwind" THEN LoopCrashed ELSE LoopAfterScan
    /\ UNCHANGED << variant, cfg, timescale, todo, written, rowsDone, dbErrors, scanErr,
                    nscan, conns, visited, initErr, dq >>
    /\ UNCHANGED << scrape, serverVars >>
    /\ UNCHANGED vars

\* The context of config.Start is cancelled.
Cancel ==
    /\ loop.pc \in {"timer", "scan"}
    /\ ~loop.cancelled
    /\ loop' = [loop EXCEPT !.cancelled = TRUE]
    /\ UNCHANGED scanVars
    /\ UNCHANGED << scrape, serverVars >>
    /\ UNCHANGED vars

\* The loop's select takes <-ctx.Done() and the goroutine returns.  When
\* timer.C is ready as well, select takes either.
LoopExit ==
    /\ loop.pc = "timer"
    /\ loop.cancelled
    /\ loop' = [loop EXCEPT !.pc = "stopped"]
    /\ UNCHANGED scanVars
    /\ UNCHANGED << scrape, serverVars >>
    /\ UNCHANGED vars

\* The most rows a table query returns.
MaxRows == Len(Tables(App))

ScanNext ==
    \/ TimerFire
    \/ \E connOk \in BOOLEAN : \E outcome \in QueryOutcomes : \E good \in 0 .. Len(Catalog) :
           ScanEnter(connOk, good, outcome)
    \/ \E connOk \in BOOLEAN : \E tsq, outcome \in QueryOutcomes : \E good \in 0 .. MaxRows :
           ScanDatabase(connOk, tsq, good, outcome)
    \/ ScanReturn
    \/ CommitGauge
    \/ Cancel
    \/ LoopExit

\* The scanner and its loop as config.Start makes them; the collector
\* modelled above is not part of this specification and stays as made.
ScanStart == ScanInit /\ LoopInit /\ ServerOff /\ NewGaugeBatch /\ labelNames = << "db" >>

ScanSpec == ScanStart /\ [][ScanNext]_exporterVars

(***************************************************************************)
(* A scrape of the registry while the scan loop runs: Gather calls Collect *)
(* on each of the five gauges, in goroutines of its own, so in any order   *)
(* and at any time with respect to the scan goroutine.  Collect copies the *)
(* `last` of its gauge under the lock of that gauge.                       *)
(***************************************************************************)
\* Collect on gauge g: the scrape gets the batch g has published.
ScrapeCollect(g) ==
    /\ loop.pc \notin {"off", "crashed"}
    /\ ~scrape[g].seen
    /\ scrape' = [scrape EXCEPT ![g] = [seen |-> TRUE, cycle |-> published[g].cycle]]
    /\ UNCHANGED scanVars
    /\ UNCHANGED loop
    /\ UNCHANGED serverVars
    /\ UNCHANGED vars

ScrapeNext ==
    \/ ScanNext
    \/ \E g \in Gauges : ScrapeCollect(g)

\* The "batch" scanner with the default interval and threshold and with
\* exceptions that leave one database to scan, its loop, and a scrape.
ScrapeStart ==
    /\ ScanInit /\ LoopInit /\ ServerOff /\ NewGaugeBatch /\ labelNames = << "db" >>
    /\ variant = "batch"
    /\ cfg.Threshold = 0
    /\ Excepted(cfg.Exceptions, App)
    /\ timescale = {}
    /\ loop.interval = Minutes(30)

ScrapeSpec == ScrapeStart /\ [][ScrapeNext]_exporterVars

(***************************************************************************)
(* main and the HTTP server.                                               *)
(***************************************************************************)
\* main: Validate; on an error main returns it; else config.Start starts
\* the scan goroutine with its timer and main listens with its handler.
Main ==
    /\ server = "off"
    /\ loop.pc = "off"
    /\ IF Validate(flags) = NilError
       THEN /\ server' = "listening"
            /\ loop' = [interval |-> flags.Interval, pc |-> "timer", delay |-> FromNat(0),
                        fired |-> FALSE, cancelled |-> FALSE]
       ELSE /\ server' = "exited"
            /\ loop' = loop
    /\ UNCHANGED << flags, req >>
    /\ UNCHANGED scanVars
    /\ UNCHANGED scrape
    /\ UNCHANGED vars

\* The handler serves one request.  req keeps, as history, the number of
\* the Scan in progress and of the last Scan that returned.
Request(method, path) ==
    /\ server = "listening"
    /\ loop.pc # "crashed"
    /\ LET route == Route(variant, method, path)
       IN req' = [method |-> method, path |-> path, route |-> route,
                  scanning |-> IF loop.pc = "scan" THEN nscan ELSE 0,
                  finished |-> IF loop.pc = "scan" THEN nscan - 1 ELSE nscan,
                  response |-> Respond(route, sharedBuffer)]
    /\ UNCHANGED << flags, server >>
    /\ UNCHANGED scanVars
    /\ UNCHANGED << loop, scrape >>
    /\ UNCHANGED vars

ServeNext ==
    \/ Main
    \/ ScanNext
    \/ \E method \in MethodInputs : \E path \in PathInputs : Request(method, path)

\* The program when main is entered, with the "text" or the "batch"
\* scanner, the default threshold and exceptions that leave one database
\* to scan.
ServeStart ==
    /\ ScanInit /\ NewGaugeBatch /\ labelNames = << "db" >>
    /\ variant \in {"text", "batch"}
    /\ cfg.Threshold = 0
    /\ Excepted(cfg.Exceptions, App)
    /\ timescale = {}
    /\ loop = [interval |-> Minutes(30), pc |-> "off", delay |-> FromNat(0),
               fired |-> FALSE, cancelled |-> FALSE]
    /\ flags \in FlagInputs
    /\ server = "off"
    /\ req = NoRequest

ServeSpec == ServeStart /\ [][ServeNext]_exporterVars


(***************************************************************************)
(* Specification of the collector.                                         *)
(***************************************************************************)
Next ==
    \/ \E t \in TimeInputs : Begin(t)
    \/ \E s \in SampleInputs(labelNames) : Set(s)
    \/ CommitLock
    \/ CommitSwap
    \/ \E r \in Readers : Describe(r)
    \/ \E r \in Readers : CollectLock(r)
    \/ \E r \in Readers : CollectSnapshot(r)
    \/ \E r \in Readers : CollectEmit(r)

\* The collector after construction; the scanner is not part of this
\* specification and stays off.
Init == NewGaugeBatch /\ ScanOff /\ LoopOff /\ ServerOff

Spec == Init /\ [][Next]_vars

(***************************************************************************)
(* Properties of Collect against the history of calls.                     *)
(***************************************************************************)
\* The metric a sample set with arguments s is due to be exported as, on a
\* collector with label names `names`, in a batch with timestamp ts.
MetricOf(names, s, ts) ==
    [ts |-> ts,
     value |-> s.value,
     label |-> [k \in 1 .. Len(names) |->
                   [name |-> names[k],
                    value |-> IF k \in DOMAIN s.labelValues
                              THEN s.labelValues[k] ELSE Missing]]]

\* The time Begin was given falls into this Unix millisecond.
MilliOf(t) == t.sec * 1000 + t.nsec \div 1000000

\* Reader r holds a snapshot (Collect has copied `last` and not returned to
\* a new call).
Holds(r) == rpc[r] \in {"emit", "done", "panic"}

\* p is a prefix of q.
IsPrefix(p, q) == Len(p) <= Len(q) /\ \A i \in 1 .. Len(p) : p[i] = q[i]

\* C1: after Begin(ts); Set(l1,v1); ...; Set(lN,vN); Commit, a Collect that
\* copies that batch and returns has emitted exactly N metrics, the i-th
\* carrying (li, vi), in the order of the Set calls, all with one timestamp.
C1_CollectEmitsBatchInOrder ==
    \A r \in Readers :
        (rpc[r] = "done" /\ gsnap[r].open) =>
            /\ Len(Emitted(r)) = Len(gsnap[r].sets)
            /\ \A i \in 1 .. Len(Emitted(r)) :
                   /\ i \in DOMAIN gsnap[r].sets
                   /\ Emitted(r)[i].label = MetricOf(labelNames, gsnap[r].sets[i], 0).label
                   /\ Emitted(r)[i].value = gsnap[r].sets[i].value
            /\ \A i, j \in 1 .. Len(Emitted(r)) : Emitted(r)[i].ts = Emitted(r)[j].ts

\* Witness of C1: a Collect has returned two different samples of a batch
\* built by Begin; Set; Set; Commit.
C1_Witness ==
    \E r \in Readers :
        /\ rpc[r] = "done" /\ gsnap[r].open
        /\ Len(gsnap[r].sets) = 2 /\ gsnap[r].sets[1] # gsnap[r].sets[2]
        /\ Len(out[r]) = 2

\* C2: whatever the interleaving with the scan goroutine and with other
\* readers, what a Collect has emitted so far is a prefix of the batch that
\* the latest Commit completed before the reader took the lock had
\* installed (built by Begin; Set*; Commit, or the empty batch when there
\* was no Commit), each metric with the timestamp of that batch, and the
\* whole of it once Collect has returned; samples of the batch under
\* construction or of another batch never appear.
C2_CollectSeesOneCommittedBatch ==
    \A r \in Readers :
        (Holds(r) /\ (gsnap[r].open \/ gsnap[r].n = 0)) =>
            LET batch == [i \in 1 .. Len(gsnap[r].sets) |->
                             MetricOf(labelNames, gsnap[r].sets[i], MilliOf(gsnap[r].time))]
            IN /\ IsPrefix(Emitted(r), batch)
               /\ rpc[r] = "done" => Emitted(r) = batch
               /\ gsnap[r].n <= ncommit

\* Witness of C2: a reader is emitting a committed batch while the scan
\* goroutine, past a Begin, has set samples of the next batch.
C2_Witness ==
    \E r \in Readers :
        /\ rpc[r] = "emit" /\ gsnap[r].open /\ Len(out[r]) = 1
        /\ gsnap[r].n = ncommit
        /\ gcur.open /\ Len(gcur.sets) > 0 /\ gcur.sets # gsnap[r].sets

\* The timestamp and samples a batch value denotes in heap h.
BatchView(h, b) == [ts |-> b.ts, samples |-> Elems(h, b.samples)]

\* C3: a step of the scan goroutine (Begin, Set, Commit, also a Set after a
\* Commit with no Begin) or of another reader changes neither the timestamp
\* and samples of a snapshot a reader holds, nor what the metrics already
\* emitted from it read as, nor the batch `last` holds unless Commit
\* replaces it.
C3_CommittedBatchNeverMutated ==
    [][ /\ \A r \in Readers :
              (Holds(r) /\ Holds(r)' /\ snap'[r] = snap[r]) =>
                  /\ BatchView(heap', snap'[r]) = BatchView(heap, snap[r])
                  /\ IsPrefix(Emitted(r), Emitted(r)')
        /\ (last' = last) => BatchView(heap', last') = BatchView(heap, last)
      ]_vars

\* Witness of C3: a reader holds a snapshot of the first batch, with
\* samples, after a second Commit that published a Set made with no Begin.
C3_Witness ==
    \E r \in Readers :
        /\ Holds(r) /\ gsnap[r].n = 1 /\ snap[r].samples.len > 0
        /\ ncommit = 2 /\ ~glast.open /\ Len(glast.sets) > 0

\* C4: a Collect that copies `last` before any Commit has completed emits
\* nothing and does not panic, whatever Begin and Set did; Describe emits
\* the descriptor made at construction.
C4_NothingBeforeFirstCommit ==
    /\ \A r \in Readers :
           (Holds(r) /\ gsnap[r].n = 0) => (rpc[r] = "done" /\ out[r] = <<>>)
    /\ \A r \in Readers :
           (rpc[r] = "described" /\ ncommit = 0) =>
               descOut[r] = [name |-> "pg_gauge", help |-> "help", labels |-> labelNames]

\* Witness of C4: before any Commit a Collect has returned while the batch
\* under construction holds samples, and another reader has called Describe.
C4_Witness ==
    \E r, q \in Readers :
        /\ rpc[r] = "done" /\ gsnap[r].n = 0 /\ ncommit = 0
        /\ current.samples.len > 0 /\ gcur.open
        /\ rpc[q] = "described"

\* C5: the mutex is held only by a Collect that is about to copy `last` or
\* by a Commit that is about to swap; a reader that iterates or waits on
\* the channel does not hold it, so the holder can always finish its
\* critical section and a free mutex can always be taken by Commit.
C5_LockHeldOnlyForCopyOrSwap ==
    /\ lock \in Readers => rpc[lock] = "locked"
    /\ lock = Producer <=> ppc = "commit"
    /\ \A r \in Readers : rpc[r] = "locked" => lock = r
    /\ \A r \in Readers : rpc[r] \in {"emit", "done"} => lock # r
    /\ (Running /\ ppc = "commit") => ENABLED CommitSwap
    /\ \A r \in Readers : (Running /\ rpc[r] = "locked") => ENABLED CollectSnapshot(r)

\* Witness of C5: one reader is in the middle of emitting (its consumer
\* has not taken the next metric) while Commit or another Collect holds
\* the mutex.
C5_Witness ==
    \E r \in Readers :
        /\ rpc[r] = "emit" /\ Len(out[r]) = 1
        /\ lock \notin {Free, r}

\* Readers r1 and r2 have returned from Collect with metrics of two
\* consecutive batches, each built by Begin; Set*; Commit, with identical
\* label values and numeric values.
TwinCycles(r1, r2) ==
    /\ rpc[r1] = "done" /\ rpc[r2] = "done"
    /\ gsnap[r1].open /\ gsnap[r2].open
    /\ gsnap[r2].n = gsnap[r1].n + 1
    /\ gsnap[r1].sets = gsnap[r2].sets
    /\ Len(out[r1]) > 0 /\ Len(out[r2]) > 0

\* C6 as stated: two consecutive cycles with identical samples are emitted
\* with different timestamps.
C6_TwinCyclesDifferInTimestamp ==
    \A r1, r2 \in Readers :
        TwinCycles(r1, r2) => Emitted(r1)[1].ts # Emitted(r2)[1].ts

\* C6 as amended: two consecutive cycles with identical samples are
\* emitted with different timestamps exactly when their Begin calls were
\* given times of different Unix milliseconds.
C6_TwinCyclesDifferWhenBeginTimesDiffer ==
    \A r1, r2 \in Readers :
        TwinCycles(r1, r2) =>
            (Emitted(r1)[1].ts # Emitted(r2)[1].ts
                <=> MilliOf(gsnap[r1].time) # MilliOf(gsnap[r2].time))

\* Witness of C6: twin cycles begun at different times have been emitted.
C6_Witness ==
    \E r1, r2 \in Readers :
        /\ TwinCycles(r1, r2)
        /\ gsnap[r1].time # gsnap[r2].time
        /\ Emitted(r1)[1].ts # Emitted(r2)[1].ts

\* The label values of an emitted metric.
LabelValuesOf(m) == [k \in DOMAIN m.label |-> m.label[k].value]

\* The label values, cut to the schema, the samples of a cycle were set with.
LabelValuesSet(sets) ==
    { LabelValuesOf(MetricOf(labelNames, sets[i], 0)) : i \in DOMAIN sets }

\* C7: a Collect of a batch built by Begin; Set*; Commit emits no metric
\* with a label combination that was not set in that cycle, whatever
\* earlier cycles had set; a label combination emitted from an earlier
\* batch and not set in a later cycle is not emitted from the later batch;
\* and with labels ["db"], after a cycle that set only (["a"], 10) begun at
\* t = 2000 ms, Collect emits exactly {db="a"} = 10 @ 2000.
C7_BatchesReplacedNotMerged ==
    /\ \A r \in Readers :
           (rpc[r] = "done" /\ gsnap[r].open) =>
               \A i \in DOMAIN out[r] :
                   LabelValuesOf(Emitted(r)[i]) \in LabelValuesSet(gsnap[r].sets)
    /\ \A r1, r2 \in Readers :
           (rpc[r1] = "done" /\ rpc[r2] = "done" /\ gsnap[r2].open
                /\ gsnap[r1].n < gsnap[r2].n) =>
               \A i \in DOMAIN out[r1] :
                   LabelValuesOf(Emitted(r1)[i]) \notin LabelValuesSet(gsnap[r2].sets) =>
                       \A j \in DOMAIN out[r2] :
                           LabelValuesOf(Emitted(r2)[j]) # LabelValuesOf(Emitted(r1)[i])
    /\ \A r \in Readers :
           (rpc[r] = "done" /\ gsnap[r].open /\ labelNames = <<"db">>
                /\ gsnap[r].sets = << [labelValues |-> <<"a">>, value |-> 10] >>
                /\ gsnap[r].time = [sec |-> 2, nsec |-> 0]) =>
               Emitted(r) = << [ts |-> 2000, value |-> 10,
                                label |-> << [name |-> "db", value |-> "a"] >>] >>

\* Witness of C7: the scenario: cycle 1 set a and b, cycle 2 set a only;
\* one reader has emitted cycle 1 and the other cycle 2.
C7_Witness ==
    \E r1, r2 \in Readers :
        /\ rpc[r1] = "done" /\ rpc[r2] = "done" /\ labelNames = <<"db">>
        /\ gsnap[r1].n = 1 /\ gsnap[r1].open
        /\ gsnap[r1].sets = << [labelValues |-> <<"a">>, value |-> 10],
                               [labelValues |-> <<"b">>, value |-> 20] >>
        /\ Len(out[r1]) = 2 /\ Emitted(r1)[2].ts = 1000
        /\ gsnap[r2].n = 2 /\ gsnap[r2].open
        /\ gsnap[r2].sets = << [labelValues |-> <<"a">>, value |-> 10] >>
        /\ Len(out[r2]) = 1 /\ Emitted(r2)[1].ts = 2000

\* C8: every metric Collect has emitted carries exactly len(labelNames)
\* label pairs, the k-th made of labelNames[k] and of the k-th label value
\* of the sample the metric was emitted for; no pair carries a value of
\* another sample.
C8_LabelsZippedPositionally ==
    \A r \in Readers :
        Holds(r) =>
            \A i \in DOMAIN out[r] :
                /\ i \in DOMAIN gsnap[r].sets
                /\ Len(Emitted(r)[i].label) = Len(labelNames)
                /\ \A k \in 1 .. Len(labelNames) :
                       /\ k \in DOMAIN gsnap[r].sets[i].labelValues
                       /\ Emitted(r)[i].label[k] =
                              [name |-> labelNames[k],
                               value |-> gsnap[r].sets[i].labelValues[k]]

\* Witness of C8: with two label names, a Collect has emitted two samples
\* that differ in both label values.
C8_Witness ==
    \E r \in Readers :
        /\ rpc[r] = "done" /\ Len(labelNames) = 2 /\ Len(out[r]) = 2
        /\ gsnap[r].sets[1].labelValues = <<"a", "x">>
        /\ gsnap[r].sets[2].labelValues = <<"b", "y">>

\* C9 as stated: no Collect panics, whatever the length of the label
\* values given to Set.
C9_MismatchedSetNeverCrashesCollect ==
    \A r \in Readers : rpc[r] # "panic"

\* C10 as stated: samples set after a Commit with no Begin in between are
\* not published by the next Commit: a Collect of a batch committed with no
\* Begin since the previous Commit emits nothing.
C10_SetWithoutBeginPublishesNothing ==
    \A r \in Readers :
        (Holds(r) /\ gsnap[r].n >= 2 /\ ~gsnap[r].open) => out[r] = <<>>

\* C11: a Begin on an open batch raises no error (Begin is enabled there as
\* anywhere else) and discards the samples set since the previous Begin: a
\* Collect that returns after Begin; Set*; Begin; Set (M times); Commit has
\* emitted exactly the M samples set after the second Begin, in order, each
\* with the timestamp of the second Begin.
C11_SecondBeginDiscardsOpenBatch ==
    /\ (Running /\ ppc = "idle" /\ ncommit < MaxCommits /\ gcur.open) =>
           \A t \in TimeInputs : ENABLED Begin(t)
    /\ \A r \in Readers :
           (rpc[r] = "done" /\ gsnap[r].open /\ gsnap[r].rebegun) =>
               Emitted(r) = [i \in 1 .. Len(gsnap[r].sets) |->
                                MetricOf(labelNames, gsnap[r].sets[i],
                                         MilliOf(gsnap[r].time))]

\* Witness of C11: a Collect has returned one sample of a batch whose Begin
\* discarded samples of an open batch.
C11_Witness ==
    \E r \in Readers :
        /\ rpc[r] = "done" /\ gsnap[r].open /\ gsnap[r].rebegun
        /\ Len(gsnap[r].sets) = 1 /\ Len(out[r]) = 1

\* C12 as stated: a Collect that copied `last` after at least one Commit
\* and has returned has emitted at least one metric.
C12_ZeroMetricsOnlyBeforeFirstCommit ==
    \A r \in Readers :
        (rpc[r] = "done" /\ gsnap[r].n >= 1) => Len(out[r]) >= 1

\* C12 as amended: a Collect of a batch no sample was set into (before the
\* first Commit as after a Commit with no Set since the preceding Begin or
\* Commit) returns with zero metrics, and a Collect that returns from a
\* batch with samples has emitted one metric per sample.
C12_ZeroMetricsExactlyForBatchWithoutSamples ==
    \A r \in Readers :
        /\ (Holds(r) /\ gsnap[r].sets = <<>>) => (rpc[r] = "done" /\ out[r] = <<>>)
        /\ (rpc[r] = "done" /\ gsnap[r].sets # <<>>) =>
               (Len(out[r]) = Len(gsnap[r].sets) /\ Len(out[r]) >= 1)

\* Witness of C12: a Collect has returned with zero metrics from a batch
\* committed after a Begin with no Set, while the other reader has returned
\* with metrics from another committed batch.
C12_Witness ==
    \E r, q \in Readers :
        /\ rpc[r] = "done" /\ gsnap[r].n >= 1 /\ gsnap[r].open
        /\ gsnap[r].sets = <<>> /\ out[r] = <<>>
        /\ rpc[q] = "done" /\ gsnap[q].n >= 1 /\ Len(out[q]) >= 1

\* C13: no step of Describe or Collect changes `last`, `current` or
\* labelNames, nor the samples they denote, whether Collect runs to its
\* return, stops part-way because its consumer takes no more metrics, or
\* panics; and what a Collect has emitted, part-way or in full, agrees with
\* what another Collect of the same committed batch has returned.
C13_CollectLeavesCollectorUnchanged ==
    /\ [][ (readerVars' # readerVars) =>
              /\ last' = last /\ current' = current /\ labelNames' = labelNames
              /\ BatchView(heap', last') = BatchView(heap, last)
              /\ BatchView(heap', current') = BatchView(heap, current)
         ]_vars
    /\ [](\A r1, r2 \in Readers :
              (Holds(r1) /\ rpc[r2] = "done" /\ gsnap[r1].n = gsnap[r2].n) =>
                  IsPrefix(Emitted(r1), Emitted(r2)))

\* Witness of C13: one Collect has stopped after the first of two metrics
\* and a Collect of the other reader, with no Commit since, has returned
\* both.
C13_Witness ==
    \E r1, r2 \in Readers :
        /\ rpc[r1] = "emit" /\ Len(out[r1]) = 1
        /\ rpc[r2] = "done" /\ Len(out[r2]) = 2
        /\ gsnap[r1].n = gsnap[r2].n /\ gsnap[r1].n = ncommit /\ ncommit >= 1

\* C14: a step of Begin or Set leaves `last`, the samples `last` denotes,
\* labelNames, the descriptor and the mutex as they were; `last` and its
\* samples change only in the step of Commit that swaps the batches; and no
\* step at all changes labelNames or the descriptor.
C14_BeginAndSetTouchOnlyCurrent ==
    [][ /\ (ppc = "idle" /\ ppc' = "idle" /\ readerVars' = readerVars) =>
              /\ last' = last
              /\ BatchView(heap', last') = BatchView(heap, last)
              /\ lock' = lock
        /\ (last' # last \/ BatchView(heap', last') # BatchView(heap, last)) =>
              (ppc = "commit" /\ ppc' = "idle" /\ last' = current)
        /\ labelNames' = labelNames
        /\ descriptor' = descriptor
      ]_vars

\* Witness of C14: after a Commit of a batch with samples, Begin and Set
\* have built a different batch in `current`.
C14_Witness ==
    /\ ncommit >= 1 /\ last.samples.len > 0
    /\ ppc = "idle" /\ gcur.open /\ Len(gcur.sets) > 0
    /\ Elems(heap, current.samples) # Elems(heap, last.samples)
    /\ Elems(heap, last.samples) = glast.sets

\* C15: whenever Describe has run, in any state of the collector and of the
\* other goroutines, it has sent the descriptor made at construction (name,
\* help, the label names given to NewGaugeBatch); and no step changes
\* labelNames or the descriptor.
C15_DescribeIsFixed ==
    /\ [](\A r \in Readers :
              rpc[r] = "described" =>
                  descOut[r] = [name |-> "pg_gauge", help |-> "help", labels |-> labelNames])
    /\ [][labelNames' = labelNames /\ descriptor' = descriptor]_vars

\* Witness of C15: Describe has run after the last Commit, with a batch
\* under construction, while the other reader is emitting.
C15_Witness ==
    \E r, q \in Readers :
        /\ rpc[r] = "described" /\ descOut[r] # NoDesc
        /\ ncommit >= 1 /\ gcur.open /\ Len(gcur.sets) > 0
        /\ rpc[q] = "emit" /\ Len(out[q]) = 1

\* C20 as stated: once `last` holds a committed batch (its samples are not
\* nil, the test Collect makes), no step puts the collector back into the
\* state where `last` has no samples slice and Collect skips emission.
C20_NeverBackToEmpty ==
    [][SnapHasSamples(last) => SnapHasSamples(last')]_vars

(***************************************************************************)
(* Properties of the scanner and of the scan loop.                         *)
(***************************************************************************)
\* The exceptions the documentation promises: the built-in ones and every
\* pattern of --exceptions that the database name matches.
DocumentedException(database) ==
    \/ database \in {Template0, Template1, Postgres}
    \/ \E j \in DOMAIN cfg.Exceptions :
           ~BadPattern(cfg.Exceptions[j]) /\ Glob(cfg.Exceptions[j], database)

\* C16 as stated: no sample of any of the five families that a scan has
\* set is labelled with a database that matches a configured exception
\* pattern or is one of template0, template1, postgres.
C16_ExceptedDatabaseHasNoSample ==
    \A k \in DOMAIN written : ~DocumentedException(written[k].database)

\* The samples a scan has set on gauge g for table (schema, name) of a
\* database.
SamplesOf(g, database, row) ==
    { k \in DOMAIN written :
          /\ written[k].gauge = g
          /\ written[k].database = database
          /\ written[k].schema = row.schema
          /\ written[k].name = row.name }

\* The value each table gauge is due for a row.
DueValue(g, row) ==
    CASE g = tableTotalSizeGauge -> row.tot_size
      [] g = tableRelSizeGauge -> row.rel_size
      [] g = tableIdxSizeGauge -> row.tot_size - row.rel_size
      [] g = tableIsHypertableGauge -> row.isHypertable

\* C17: for every table row a scan has read in a database it did not skip:
\* with a total size below the threshold no table gauge has a sample for
\* the row; otherwise each of the four table gauges has exactly one, with
\* the total size, the relation size, their difference and is_hypertable,
\* and its kind label, carried by the three size gauges at least, is "ht"
\* exactly when is_hypertable > 0 and "rel" otherwise; and a table gauge
\* has no sample that is not for a row read.
C17_TableRowSamples ==
    /\ \A e \in DOMAIN rowsDone :
           LET database == rowsDone[e].database
               row == rowsDone[e].row
           IN IF row.tot_size < cfg.Threshold
              THEN \A g \in TableGauges : SamplesOf(g, database, row) = {}
              ELSE \A g \in TableGauges :
                       /\ Cardinality(SamplesOf(g, database, row)) = 1
                       /\ \A k \in SamplesOf(g, database, row) :
                              /\ written[k].value = DueValue(g, row)
                              /\ g # tableIsHypertableGauge =>
                                     \E n \in DOMAIN written[k].names :
                                         written[k].names[n] = "kind"
                              /\ (\E n \in DOMAIN written[k].names :
                                      written[k].names[n] = "kind") =>
                                     /\ written[k].kind = "ht" <=> row.isHypertable > 0
                                     /\ written[k].kind = "rel" <=> ~(row.isHypertable > 0)
    /\ \A k \in DOMAIN written :
           written[k].gauge \in TableGauges =>
               \E e \in DOMAIN rowsDone :
                   k \in SamplesOf(written[k].gauge, rowsDone[e].database, rowsDone[e].row)

\* Witness of C17: a scan with a threshold has returned after reading a
\* hypertable above the threshold, a table of exactly the threshold and a
\* table below it.
C17_Witness ==
    /\ spc = "done" /\ cfg.Threshold > 0
    /\ \E e \in DOMAIN rowsDone : rowsDone[e].row.isHypertable > 0
    /\ \E e \in DOMAIN rowsDone : rowsDone[e].row.tot_size = cfg.Threshold
    /\ \E e \in DOMAIN rowsDone : rowsDone[e].row.tot_size < cfg.Threshold
    /\ \E k \in DOMAIN written : written[k].kind = "ht"
    /\ \E k \in DOMAIN written : written[k].kind = "rel"

\* C18 as stated: with an empty prefix the metric families of the scanner
\* are exactly the five names of the README, whichever source of the
\* scanner runs.
C18_FamilyNamesAsDocumented ==
    { FamilyName(variant, g) : g \in Gauges } =
        { "database_size_bytes", "table_is_hypertable", "table_size_bytes",
          "table_relation_size_bytes", "table_index_size_bytes" }

\* C19 as stated: the timer is armed with delay 0 for the first scan, and
\* after every scan it is reset to the configured interval, a positive
\* int64 number of nanoseconds, and the product the "text" main takes to
\* compute the delay fits int64.
C19_TimerReArmedWithInterval ==
    /\ (nscan = 0 /\ loop.pc = "timer") => loop.delay = FromNat(0)
    /\ (nscan >= 1 /\ loop.pc \in {"timer", "stopped"}) =>
           (loop.delay = loop.interval /\ Positive64(loop.delay))
    /\ variant = "text" => MulFits(loop.interval, Minute)

\* C21: the timestamp of a batch a Collect holds, and of every metric it
\* emitted from it, is the Unix millisecond of the time given to the
\* latest Begin before the Commit that installed the batch (0 when Begin
\* was never called); a step that is not a Begin (Set, either half of
\* Commit, a reader's step) leaves the timestamp of `current` alone, and
\* Commit installs it in `last` as it is.
C21_TimestampIsBeginTime ==
    /\ [](\A r \in Readers :
              Holds(r) =>
                  /\ snap[r].ts = MilliOf(gsnap[r].time)
                  /\ \A i \in 1 .. Len(Emitted(r)) :
                         Emitted(r)[i].ts = MilliOf(gsnap[r].time))
    /\ [][ /\ (gcur'.time = gcur.time) => current'.ts = current.ts
           /\ (ncommit' # ncommit) => last'.ts = current.ts
         ]_vars

\* Witness of C21: after a cycle Begin(1.000999999 s); Set; Set; Commit a
\* Collect has returned the two samples of that batch, second commit of the
\* run, stamped 1000.
C21_Witness ==
    \E r \in Readers :
        /\ rpc[r] = "done" /\ gsnap[r].open /\ gsnap[r].n = 2
        /\ gsnap[r].time = [sec |-> 1, nsec |-> 999999]
        /\ Len(gsnap[r].sets) = 2
        /\ Len(out[r]) = 2 /\ Emitted(r)[2].ts = 1000

\* C26: when a Collect copies `last`, what it copies is the batch of the
\* latest Commit (its timestamp and its samples in the order of the Set
\* calls), and no reader that took its snapshot earlier and still holds it
\* holds the batch of a later Commit; the number of commits never
\* decreases.
C26_SnapshotsAreMonotonic ==
    [][ /\ ncommit' >= ncommit
        /\ \A r \in Readers :
               (rpc[r] = "locked" /\ Holds(r)') =>
                   /\ gsnap'[r].n = ncommit
                   /\ BatchView(heap', snap'[r]) =
                          [ts |-> MilliOf(glast.time), samples |-> glast.sets]
                   /\ \A q \in Readers \ {r} :
                          Holds(q) => gsnap[q].n <= gsnap'[r].n
      ]_vars

\* Witness of C26: one reader still emits the batch of the first Commit
\* while another, which took its snapshot later, has returned the batch of
\* the second Commit.
C26_Witness ==
    \E q, r \in Readers :
        /\ rpc[q] = "emit" /\ gsnap[q].n = 1 /\ gsnap[q].sets # <<>>
        /\ rpc[r] = "done" /\ gsnap[r].n = 2 /\ gsnap[r].sets # <<>>
        /\ gsnap[r].sets # gsnap[q].sets
        /\ Len(out[r]) = Len(gsnap[r].sets)

\* C22: in the "batch" scanner the calls a Scan made on the gauges so far
\* are Begin on the five gauges, then Set calls only, then Commit calls
\* only, at most one per gauge; and once Scan is over, by a return with or
\* without an error or by a panic, every gauge was committed exactly once.
C22_ScanBracketsEverySet ==
    variant = "batch" =>
        /\ spc = "idle" => calls = << >>
        /\ begun <=> spc \in {"loop", "commit", "unwind"}
        /\ spc # "idle" =>
               /\ Len(calls) >= numMetrics
               /\ \A k \in 1 .. numMetrics : calls[k] = [op |-> "Begin", gauge |-> k - 1]
               /\ \A i \in DOMAIN calls : i > numMetrics => calls[i].op \in {"Set", "Commit"}
               /\ \A i, j \in DOMAIN calls :
                      (i < j /\ calls[i].op = "Commit") => calls[j].op = "Commit"
               /\ \A g \in Gauges :
                      Cardinality({i \in DOMAIN calls :
                                      calls[i] = [op |-> "Commit", gauge |-> g]}) <= 1
        /\ spc = "loop" => \A i \in DOMAIN calls : calls[i].op # "Commit"
        /\ spc \in {"done", "panic"} =>
               \A g \in Gauges :
                   \E i \in DOMAIN calls : calls[i] = [op |-> "Commit", gauge |-> g]

\* Witness of C22: a Scan of the "batch" scanner has returned the error of
\* a failed table query, after Begin on five gauges, some Set calls and
\* five Commit calls.
C22_Witness ==
    /\ variant = "batch" /\ spc = "done" /\ scanErr /\ ~initErr
    /\ dq.result = "queryErr"
    /\ \E i \in DOMAIN calls : calls[i].op = "Set" /\ calls[i].gauge # dbSizeGauge
    /\ Len(calls) > 2 * numMetrics

\* C23: when a Scan of the "batch" scanner that failed in its initial step
\* without setting a sample has returned, every gauge publishes the batch
\* of that Scan, without samples, whatever it published before.
C23_FailedScanPublishesEmptyBatches ==
    (variant = "batch" /\ spc = "done" /\ initErr /\ written = << >>) =>
        \A g \in Gauges :
            /\ published[g].cycle = nscan
            /\ published[g].samples = << >>

\* Witness of C23: the second Scan failed to connect to the initial
\* database and has returned; each of the five gauges had samples of the
\* first Scan and has none now.
C23_Witness ==
    /\ variant = "batch" /\ spc = "done" /\ nscan = 2
    /\ initErr /\ conns = << >> /\ written = << >>
    /\ \A g \in Gauges : published[g].samples = << >> /\ published[g].replaced

\* C24 as stated: the batches a scrape has collected from the gauges, those
\* of gauges not yet committed left aside, are all of the same Scan.
C24_ScrapeSeesOneCycle ==
    \A g, h \in Gauges :
        (scrape[g].seen /\ scrape[h].seen /\ scrape[g].cycle > 0 /\ scrape[h].cycle > 0) =>
            scrape[g].cycle = scrape[h].cycle

\* C25: a Scan is entered only when no Scan is in progress, no gauge is
\* between Begin and Commit and the timer has fired; while Scan runs the
\* loop is inside the call and its timer is not armed; and the timer is
\* armed again in the step in which Scan returns.
C25_OneScanAtATime ==
    /\ []((spc \in {"loop", "commit", "unwind"}) <=> (loop.pc = "scan"))
    /\ [](loop.pc = "scan" => ~loop.fired)
    /\ [][ /\ (nscan' # nscan) =>
                  (spc \in {"idle", "done"} /\ ~begun /\ loop.pc = "timer" /\ loop.fired)
           /\ (spc' = "done" /\ (spc # "done" \/ nscan' # nscan)) =>
                  (loop'.pc = "timer" /\ ~loop'.fired)
         ]_exporterVars

\* Witness of C25: the second Scan is in its loop over the databases, after
\* the first has returned and the timer has fired again.
C25_Witness ==
    /\ nscan = 2 /\ spc = "loop" /\ loop.pc = "scan" /\ visited # << >>

\* C27 as stated (first part): once the context is cancelled no Scan is
\* entered.
C27_NoScanAfterCancel ==
    [][ loop.cancelled => nscan' = nscan ]_exporterVars

\* C28 as stated: in the loop the databases visited and those to visit are
\* the rows of the database query in order, with one result per visited
\* database, nil for a skipped one; when Scan is past its loop after a
\* successful initial step every database was visited; and the error Scan
\* returned is non-nil exactly when the initial step or a visited database
\* failed.
C28_EveryDatabaseVisited ==
    LET rows == DbQuery(variant)
        names == [k \in 1 .. Len(rows) |-> rows[k].datname]
    IN /\ spc = "loop" => (visited \o todo = names /\ Len(dbErrors) = Len(visited))
       /\ (spc \notin {"idle", "loop"} /\ ~initErr) =>
              (visited = names /\ Len(dbErrors) = Len(names))
       /\ \A k \in DOMAIN dbErrors :
              Excepted(cfg.Exceptions, visited[k]) => ~dbErrors[k]
       /\ spc = "done" => (scanErr <=> (initErr \/ \E k \in DOMAIN dbErrors : dbErrors[k]))

\* C29 as stated: doQuery hands the scanner the rows up to the first one
\* that fails and returns that row's error; when every row was scanned and
\* the iteration ended with an error it returns rows.Err(); it returns nil
\* only when the query, every row and the iteration succeeded.
C29_DoQueryReturnsIterationError ==
    /\ dq.passed <= dq.rows
    /\ dq.outcome = "query" => (dq.result = "queryErr" /\ dq.passed = 0)
    /\ dq.outcome = "scan" => dq.result = "scanErr"
    /\ dq.outcome = "iter" => dq.result = "rowsErr"
    /\ dq.result = NilError <=> (dq.outcome = "ok" /\ dq.passed = dq.rows)

\* C30: the Connect and Dispose calls of a Scan come in pairs, each
\* successful Connect followed by the Dispose of the same database before
\* the next Connect, the first pair being of the initial database; there
\* is at most one pair per visited database besides it.
C30_EveryConnectionDisposedOnce ==
    /\ Len(conns) % 2 = 0
    /\ \A i \in DOMAIN conns :
           IF i % 2 = 1
           THEN /\ conns[i].op = "Connect"
                /\ i + 1 \in DOMAIN conns
                /\ conns[i + 1] = [op |-> "Dispose", database |-> conns[i].database]
           ELSE conns[i].op = "Dispose"
    /\ conns # << >> => conns[1].database = cfg.InitialDB
    /\ Len(conns) <= 2 * (1 + Len(visited))
    /\ \A i \in DOMAIN conns :
           i > 2 => \E k \in DOMAIN visited : visited[k] = conns[i].database

\* Witness of C30: a Scan has returned the error of a row that failed in a
\* table query, the connection to the initial database and the one to
\* that database each disposed once.
C30_Witness ==
    /\ spc = "done" /\ scanErr /\ ~initErr
    /\ dq.result = "scanErr"
    /\ Len(conns) >= 4
    /\ conns[Len(conns)] = [op |-> "Dispose", database |-> visited[Len(visited)]]

\* C33: once main has validated the configuration, the server listens
\* only when the timeout is greater than 0, the port is greater than 1024,
\* the interval is at least 5 minutes and PGPASSWORD is not empty; in
\* every other case main has exited, the scan goroutine was not started
\* and no Scan has run.
C33_ValidateAcceptsOnlyValid ==
    /\ server = "listening" =>
           /\ Positive64(flags.Timeout)
           /\ flags.Port > 1024
           /\ ~Less64(flags.Interval, Minutes(5))
           /\ flags.Password # ""
    /\ (server # "off" /\ ~( /\ Positive64(flags.Timeout)
                            /\ flags.Port > 1024
                            /\ ~Less64(flags.Interval, Minutes(5))
                            /\ flags.Password # "" )) =>
           /\ server = "exited"
           /\ loop.pc = "off"
           /\ nscan = 0


\* C32: the handler of either main answers a request by its method first:
\* 405 for every method but GET; then by its path: "/" is redirected with
\* 302 to /metrics, "/healthz" gets 204, "/process/metrics" and "/metrics"
\* go to their metric handlers and every other path gets 404.
C32_HandlerOrderInEveryMain ==
    req # NoRequest =>
        IF req.method # "GET" THEN req.response.status = 405
        ELSE CASE req.path = "/" ->
                      req.response.status = 302 /\ req.response.location = "/metrics"
               [] req.path = "/healthz" -> req.response.status = 204
               [] req.path = "/process/metrics" -> req.route = "procHandler"
               [] req.path = "/metrics" -> req.route \in {"promHandler", "buffer"}
               [] OTHER -> req.response.status = 404

\* C32, amended: the handler answers by the method first: 405 for every
\* method but GET; then "/" is redirected with 302 to /metrics; then, in
\* the main with the registry, "/healthz" gets 204, "/process/metrics" and
\* "/metrics" go to their promhttp handlers and every other path gets 404,
\* while in src/main.go "/metrics" is served from the shared buffer and
\* every other path, "/healthz" and "/process/metrics" among them, gets
\* 404; and the step of a request leaves the scanner, its loop, the
\* published batches and the collector as they were.
C32_HandlerOrderPerMain ==
    /\ [](req # NoRequest =>
            /\ req.route = Route(variant, req.method, req.path)
            /\ IF req.method # "GET" THEN req.response.status = 405
               ELSE IF req.path = "/"
               THEN req.response.status = 302 /\ req.response.location = "/metrics"
               ELSE IF variant = "text"
               THEN IF req.path = "/metrics" THEN req.route = "buffer"
                    ELSE req.response.status = 404
               ELSE CASE req.path = "/healthz" -> req.response.status = 204
                      [] req.path = "/process/metrics" -> req.route = "procHandler"
                      [] req.path = "/metrics" -> req.route = "promHandler"
                      [] OTHER -> req.response.status = 404)
    /\ [][req' # req => UNCHANGED << scanVars, loop, vars >>]_exporterVars

\* Witness of C32: src/main.go has answered GET /healthz with 404 after a
\* Scan, and the registry main could not have: its variant is not "text".
C32_Witness ==
    /\ variant = "text"
    /\ nscan > 0 /\ ~sharedBuffer.nil
    /\ req.method = "GET" /\ req.path = "/healthz"
    /\ req.response.status = 404


\* C31: a GET /metrics answered by src/main.go ends without a fault, with
\* status 200 and the whole output of the last Scan that returned, an
\* empty body when none has, and never with the buffer of a Scan that is
\* still running.
C31_MetricsServedWithoutFault ==
    (variant = "text" /\ req.method = "GET" /\ req.path = "/metrics") =>
        /\ ~req.response.fault
        /\ req.response.status = 200
        /\ req.response.served = req.finished
        /\ req.finished = 0 => req.response.body = << >>
        /\ (req.finished = nscan /\ loop.pc # "scan") => req.response.body = written
        /\ req.scanning # 0 => req.response.served # req.scanning


====
